---- MODULE Spec2Model ----
(***************************************************************************)
(* Trading-account management: the repository layer                        *)
(* (backend/repositories/account_repo.py), the API handlers                *)
(* (backend/api/account_management_routes.py) and the response schema      *)
(* (backend/schemas/account.py).                                           *)
(*                                                                         *)
(* The account table is a sequence of rows; the autoincrement primary key  *)
(* of a row is its position, and no handler ever removes a row.            *)
(* A Python Optional value is a sequence of length 0 (None) or 1.          *)
(* Names, model names and URLs are strings; an api key is a sequence of    *)
(* characters, because the masking of a key slices it.                     *)
(***************************************************************************)
EXTENDS Integers, Sequences, FiniteSets, TLC

VARIABLES accounts, response

vars == <<accounts, response>>

----------------------------------------------------------------------------
(* Bounds of the model *)

\* rows in the table under Spec (API operations only)
MaxAccounts == 2
\* rows in the table under SpecUpdate and SpecRepo
MaxRows == 2
\* longest api key under SpecMask
MaxKeyLen == 8

----------------------------------------------------------------------------
(* Optional values *)

None == <<>>

Some(x) == <<x>>

\* Python truthiness of an Optional[str] held as a string: None and "" are falsy
TruthyStr(o) == o # None /\ o[1] # ""

\* Python truthiness of an Optional[str] held as a character sequence
TruthyKey(o) == o # None /\ o[1] # <<>>

----------------------------------------------------------------------------
(* Literals of the source *)

DefaultModel == "gpt-4-turbo"

DefaultBaseUrl == "https://api.openai.com/v1"

DefaultAccountName == "Default AI Trader"

DefaultCapital == 10000

\* "default-key-please-update-in-settings"
DefaultApiKey ==
    <<"d", "e", "f", "a", "u", "l", "t", "-", "k", "e", "y", "-", "p", "l",
    "e", "a", "s", "e", "-", "u", "p", "d", "a", "t", "e", "-", "i", "n",
    "-", "s", "e", "t", "t", "i", "n", "g", "s">>

MaskLiteral == <<"*", "*", "*", "*">>

\* the number of trailing characters the slice [-4:] keeps
MaskKeep == 4

----------------------------------------------------------------------------
(* Repository layer: each operator takes the table and returns the table   *)
(* after the commit together with the value the function returns.          *)

NewRow(db, user_id, name, account_type, initial_capital, model, base_url, api_key) ==
    [ id              |-> Len(db) + 1,
      user_id         |-> user_id,
      version         |-> "v1",
      name            |-> name,
      account_type    |-> account_type,
      model           |-> IF account_type = "AI" THEN model ELSE None,
      base_url        |-> IF account_type = "AI" THEN base_url ELSE None,
      api_key         |-> IF account_type = "AI" THEN api_key ELSE None,
      initial_capital |-> initial_capital,
      current_cash    |-> initial_capital,
      frozen_cash     |-> 0,
      is_active       |-> "true" ]

create_account(db, user_id, name, account_type, initial_capital, model, base_url, api_key) ==
    LET account == NewRow(db, user_id, name, account_type, initial_capital,
                          model, base_url, api_key)
    IN  [ db |-> Append(db, account), account |-> Some(account) ]

\* mutant of get_account: the filter on the id is lost, first() returns the
\* first row of the table
get_account_unfiltered(db, account_id) ==
    IF db # <<>> THEN Some(db[1]) ELSE None

\* db.query(Account).filter(Account.id == account_id).first()
get_account(db, account_id) ==
    IF account_id \in 1..Len(db) THEN Some(db[account_id]) ELSE None

\* query.all() has no ORDER BY; rows come back in primary-key order
get_accounts_by_user(db, user_id, active_only) ==
    SelectSeq(db, LAMBDA a : a.user_id = user_id
                             /\ (active_only => a.is_active = "true"))

\* mutant of get_or_create_default_account: the lookup is skipped
always_create_default_account(db, user_id, account_name, initial_capital, model, base_url, api_key) ==
    create_account(db, user_id, account_name, "AI", initial_capital,
                   model, base_url, api_key)

get_or_create_default_account(db, user_id, account_name, initial_capital, model, base_url, api_key) ==
    LET existing_accounts == get_accounts_by_user(db, user_id, TRUE)
    IN  IF existing_accounts # <<>>
        THEN [ db |-> db, account |-> Some(existing_accounts[1]) ]
        ELSE create_account(db, user_id, account_name, "AI", initial_capital,
                            model, base_url, api_key)

\* mutant of update_account: the model is assigned without the None test
update_account_assigning_model(db, account_id, name, model, base_url, api_key) ==
    IF account_id \notin 1..Len(db)
    THEN [ db |-> db, account |-> None ]
    ELSE LET old == db[account_id]
             new == [ old EXCEPT
                        !.name     = IF name # None THEN name[1] ELSE @,
                        !.model    = model,
                        !.base_url = IF base_url # None THEN base_url ELSE @,
                        !.api_key  = IF api_key # None THEN api_key ELSE @ ]
         IN  [ db |-> [ db EXCEPT ![account_id] = new ], account |-> Some(new) ]

update_account(db, account_id, name, model, base_url, api_key) ==
    IF account_id \notin 1..Len(db)
    THEN [ db |-> db, account |-> None ]
    ELSE LET old == db[account_id]
             new == [ old EXCEPT
                        !.name     = IF name # None THEN name[1] ELSE @,
                        !.model    = IF model # None THEN model ELSE @,
                        !.base_url = IF base_url # None THEN base_url ELSE @,
                        !.api_key  = IF api_key # None THEN api_key ELSE @ ]
         IN  [ db |-> [ db EXCEPT ![account_id] = new ], account |-> Some(new) ]

update_account_cash(db, account_id, current_cash, frozen_cash) ==
    IF account_id \notin 1..Len(db)
    THEN [ db |-> db, account |-> None ]
    ELSE LET old == db[account_id]
             new == [ old EXCEPT
                        !.current_cash = current_cash,
                        !.frozen_cash  = IF frozen_cash # None THEN frozen_cash[1] ELSE @ ]
         IN  [ db |-> [ db EXCEPT ![account_id] = new ], account |-> Some(new) ]

\* mutant of deactivate_account: the flag is flipped instead of cleared
deactivate_account_toggling(db, account_id) ==
    IF account_id \notin 1..Len(db)
    THEN [ db |-> db, account |-> None ]
    ELSE LET new == [ db[account_id] EXCEPT
                        !.is_active = IF @ = "true" THEN "false" ELSE "true" ]
         IN  [ db |-> [ db EXCEPT ![account_id] = new ], account |-> Some(new) ]

deactivate_account(db, account_id) ==
    IF account_id \notin 1..Len(db)
    THEN [ db |-> db, account |-> None ]
    ELSE LET new == [ db[account_id] EXCEPT !.is_active = "false" ]
         IN  [ db |-> [ db EXCEPT ![account_id] = new ], account |-> Some(new) ]

activate_account(db, account_id) ==
    IF account_id \notin 1..Len(db)
    THEN [ db |-> db, account |-> None ]
    ELSE LET new == [ db[account_id] EXCEPT !.is_active = "true" ]
         IN  [ db |-> [ db EXCEPT ![account_id] = new ], account |-> Some(new) ]

----------------------------------------------------------------------------
(* Session verifier (repositories/user_repo.py, an external collaborator): *)
(* a token resolves to a user id or to None.                               *)

Users == {1, 2}

Tokens == {"tok1", "tok2", "expired"}

verify_auth_session(session_token) ==
    CASE session_token = "tok1" -> Some(1)
      [] session_token = "tok2" -> Some(2)
      [] OTHER                  -> None

----------------------------------------------------------------------------
(* Response shaping *)

\* mutant of LastChars: the slice keeps one character too many
LastCharsOneMore(s) ==
    IF Len(s) <= MaskKeep + 1 THEN s ELSE SubSeq(s, Len(s) - MaskKeep, Len(s))

\* account.api_key[-4:]
LastChars(s) ==
    IF Len(s) <= MaskKeep THEN s ELSE SubSeq(s, Len(s) - MaskKeep + 1, Len(s))

\* "****" + account.api_key[-4:] if account.api_key else ""
MaskApiKey(api_key) ==
    IF TruthyKey(api_key) THEN MaskLiteral \o LastChars(api_key[1]) ELSE <<>>

\* AccountOut declares model and base_url as str: None fails validation
AccountOutValid(account) ==
    account.model # None /\ account.base_url # None

\* float(...) of a stored amount keeps its value; is_active becomes a bool
AccountOut(account) ==
    [ id              |-> account.id,
      user_id         |-> account.user_id,
      name            |-> account.name,
      model           |-> account.model[1],
      base_url        |-> account.base_url[1],
      api_key         |-> MaskApiKey(account.api_key),
      initial_capital |-> account.initial_capital,
      current_cash    |-> account.current_cash,
      frozen_cash     |-> account.frozen_cash,
      account_type    |-> account.account_type,
      is_active       |-> (account.is_active = "true") ]

HTTPException(op, status_code, detail) ==
    [ op |-> op, status |-> status_code, detail |-> detail,
      out |-> <<>>, message |-> None ]

Ok(op, out) ==
    [ op |-> op, status |-> 200, detail |-> "", out |-> out, message |-> None ]

\* return AccountOut(...) inside try/except Exception: a validation error
\* becomes a 500 after whatever the handler has already committed
Shaped(op, account, failure) ==
    IF AccountOutValid(account)
    THEN Ok(op, <<AccountOut(account)>>)
    ELSE HTTPException(op, 500, failure)

\* raise HTTPException(401) if the token does not resolve
Unauthorized(op) == HTTPException(op, 401, "Invalid or expired session")

----------------------------------------------------------------------------
(* API handlers: the table after the call and the response *)

list_user_accounts(db, session_token) ==
    LET user == verify_auth_session(session_token)
        accs == get_accounts_by_user(db, user[1], TRUE)
    IN  IF user = None
        THEN [ db |-> db, response |-> Unauthorized("list") ]
        ELSE IF \A i \in 1..Len(accs) : AccountOutValid(accs[i])
        THEN [ db |-> db,
               response |-> Ok("list", [ i \in 1..Len(accs) |-> AccountOut(accs[i]) ]) ]
        ELSE [ db |-> db,
               response |-> HTTPException("list", 500, "Failed to get account list") ]

create_trading_account(db, session_token, data) ==
    LET user == verify_auth_session(session_token)
        existing_accounts == get_accounts_by_user(db, user[1], TRUE)
        created == create_account(db, user[1], data.name, data.account_type,
                                  data.initial_capital, Some(data.model),
                                  Some(data.base_url), Some(data.api_key))
    IN  IF user = None
        THEN [ db |-> db, response |-> Unauthorized("create") ]
        ELSE IF \E i \in 1..Len(existing_accounts) : existing_accounts[i].name = data.name
        THEN [ db |-> db,
               response |-> HTTPException("create", 400, "Account name already exists") ]
        ELSE [ db |-> created.db,
               response |-> Shaped("create", created.account[1], "Failed to create account") ]

get_account_details(db, session_token, account_id) ==
    LET user == verify_auth_session(session_token)
        account == get_account(db, account_id)
    IN  IF user = None
        THEN [ db |-> db, response |-> Unauthorized("details") ]
        ELSE IF account = None
        THEN [ db |-> db, response |-> HTTPException("details", 404, "Account not found") ]
        ELSE IF account[1].user_id # user[1]
        THEN [ db |-> db, response |-> HTTPException("details", 403, "Access denied") ]
        ELSE [ db |-> db,
               response |-> Shaped("details", account[1], "Failed to get account details") ]

update_trading_account(db, session_token, account_id, data) ==
    LET user == verify_auth_session(session_token)
        account == get_account(db, account_id)
        existing_accounts == get_accounts_by_user(db, user[1], TRUE)
        updated == update_account(db, account_id, data.name, data.model,
                                  data.base_url, data.api_key)
    IN  IF user = None
        THEN [ db |-> db, response |-> Unauthorized("update") ]
        ELSE IF account = None
        THEN [ db |-> db, response |-> HTTPException("update", 404, "Account not found") ]
        ELSE IF account[1].user_id # user[1]
        THEN [ db |-> db, response |-> HTTPException("update", 403, "Access denied") ]
        ELSE IF TruthyStr(data.name)
                /\ \E i \in 1..Len(existing_accounts) :
                      /\ existing_accounts[i].name = data.name[1]
                      /\ existing_accounts[i].id # account_id
        THEN [ db |-> db,
               response |-> HTTPException("update", 400, "Account name already exists") ]
        ELSE IF updated.account = None
        \* updated_account.id on None raises inside the try block
        THEN [ db |-> updated.db,
               response |-> HTTPException("update", 500, "Failed to update account") ]
        ELSE [ db |-> updated.db,
               response |-> Shaped("update", updated.account[1], "Failed to update account") ]

\* mutant of delete_trading_account: the ownership test is missing
delete_any_account(db, session_token, account_id) ==
    LET user == verify_auth_session(session_token)
        account == get_account(db, account_id)
        deactivated == deactivate_account(db, account_id)
    IN  IF user = None
        THEN [ db |-> db, response |-> Unauthorized("delete") ]
        ELSE IF account = None
        THEN [ db |-> db, response |-> HTTPException("delete", 404, "Account not found") ]
        ELSE [ db |-> deactivated.db,
               response |-> [ op |-> "delete", status |-> 200,
                              detail |-> "deactivated successfully", out |-> <<>>,
                              message |-> Some(account[1].name) ] ]

delete_trading_account(db, session_token, account_id) ==
    LET user == verify_auth_session(session_token)
        account == get_account(db, account_id)
        deactivated == deactivate_account(db, account_id)
    IN  IF user = None
        THEN [ db |-> db, response |-> Unauthorized("delete") ]
        ELSE IF account = None
        THEN [ db |-> db, response |-> HTTPException("delete", 404, "Account not found") ]
        ELSE IF account[1].user_id # user[1]
        THEN [ db |-> db, response |-> HTTPException("delete", 403, "Access denied") ]
        ELSE [ db |-> deactivated.db,
               response |-> [ op |-> "delete", status |-> 200,
                              detail |-> "deactivated successfully", out |-> <<>>,
                              message |-> Some(account[1].name) ] ]

get_or_create_default(db, session_token) ==
    LET user == verify_auth_session(session_token)
        got == get_or_create_default_account(db, user[1], DefaultAccountName,
                   DefaultCapital, Some(DefaultModel), Some(DefaultBaseUrl),
                   Some(DefaultApiKey))
    IN  IF user = None
        THEN [ db |-> db, response |-> Unauthorized("default") ]
        ELSE [ db |-> got.db,
               response |-> Shaped("default", got.account[1], "Failed to get default account") ]

----------------------------------------------------------------------------
(* Repository calls made directly (by the trading subsystem, not the API): *)
(* the response records the Optional row the function returns.             *)

Returned(op, account) ==
    [ op |-> op, status |-> 0, detail |-> "", out |-> account, message |-> None ]

----------------------------------------------------------------------------
(* Inputs *)

Names == {"", "X"}

AccountTypes == {"AI", "MANUAL"}

OtherModel == "claude-3"

OtherBaseUrl == "https://api.anthropic.com/v1"

SampleApiKey == <<"s", "k", "-", "a", "b", "c", "d", "e">>

OtherApiKey == <<"k", "2">>

KeyChars == {"*", "k"}

\* every character sequence over KeyChars of length at most n
KeysUpTo(n) == UNION { [1..m -> KeyChars] : m \in 0..n }

AccountIds == 1..(MaxAccounts + 1)

RowIds == 1..(MaxRows + 1)

\* AccountCreate bodies under Spec: the name and the type vary
CreateBodies ==
    [ name : Names, account_type : AccountTypes, model : {DefaultModel},
      base_url : {DefaultBaseUrl}, api_key : {SampleApiKey},
      initial_capital : {DefaultCapital} ]

\* AccountUpdate bodies under Spec: only the name is ever supplied
RenameBodies ==
    [ name : {None} \cup { Some(n) : n \in Names }, model : {None},
      base_url : {None}, api_key : {None} ]

\* AccountUpdate bodies: every subset of the four fields
UpdateBodies ==
    [ name : {None, Some("Y")}, model : {None, Some(OtherModel)},
      base_url : {None, Some(OtherBaseUrl)}, api_key : {None, Some(OtherApiKey)} ]

\* AccountUpdate bodies under SpecRepo: nothing, the model, or all three
\* type-dependent fields
FieldBodies ==
    { [ name |-> None, model |-> None, base_url |-> None, api_key |-> None ],
      [ name |-> None, model |-> Some(OtherModel), base_url |-> None,
        api_key |-> None ],
      [ name |-> None, model |-> Some(OtherModel),
        base_url |-> Some(OtherBaseUrl), api_key |-> Some(OtherApiKey) ] }

\* AccountCreate bodies under SpecUpdate and SpecRepo: the type varies
TypeBodies ==
    [ name : {"X"}, account_type : AccountTypes, model : {DefaultModel},
      base_url : {DefaultBaseUrl}, api_key : {SampleApiKey},
      initial_capital : {DefaultCapital} ]

\* AccountCreate bodies under SpecMask: the api key varies
KeyBodies ==
    [ name : {"X"}, account_type : {"AI"}, model : {DefaultModel},
      base_url : {DefaultBaseUrl}, api_key : KeysUpTo(MaxKeyLen),
      initial_capital : {DefaultCapital} ]

\* AccountUpdate bodies under SpecMask: the api key is emptied or replaced
RekeyBodies ==
    [ name : {None}, model : {None}, base_url : {None},
      api_key : {Some(<<>>), Some(OtherApiKey)} ]

\* AccountUpdate bodies under SpecAccess: a rename to the name Create uses
ToXBodies ==
    [ name : {Some("X")}, model : {None}, base_url : {None}, api_key : {None} ]

\* AccountUpdate bodies under SpecUpdate: a rename only
ToYBodies ==
    [ name : {Some("Y")}, model : {None}, base_url : {None}, api_key : {None} ]

\* AccountUpdate bodies the properties quantify over
ProbeBodies == FieldBodies \cup ToXBodies \cup ToYBodies

----------------------------------------------------------------------------
(* State machine *)

Init ==
    /\ accounts = <<>>
    /\ response = [ op |-> "none", status |-> 0, detail |-> "", out |-> <<>>,
                    message |-> None ]

List(t) ==
    LET r == list_user_accounts(accounts, t)
    IN  /\ accounts' = r.db
        /\ response' = r.response

Create(t, data) ==
    LET r == create_trading_account(accounts, t, data)
    IN  /\ accounts' = r.db
        /\ response' = r.response

Details(t, id) ==
    LET r == get_account_details(accounts, t, id)
    IN  /\ accounts' = r.db
        /\ response' = r.response

Update(t, id, data) ==
    LET r == update_trading_account(accounts, t, id, data)
    IN  /\ accounts' = r.db
        /\ response' = r.response

Delete(t, id) ==
    LET r == delete_trading_account(accounts, t, id)
    IN  /\ accounts' = r.db
        /\ response' = r.response

Default(t) ==
    LET r == get_or_create_default(accounts, t)
    IN  /\ accounts' = r.db
        /\ response' = r.response

RepoCreate(u, name, type, key) ==
    LET r == create_account(accounts, u, name, type, DefaultCapital,
                            Some(DefaultModel), Some(DefaultBaseUrl), key)
    IN  /\ accounts' = r.db
        /\ response' = Returned("repo.create", r.account)

RepoUpdate(id, data) ==
    LET r == update_account(accounts, id, data.name, data.model, data.base_url,
                            data.api_key)
    IN  /\ accounts' = r.db
        /\ response' = Returned("repo.update", r.account)

RepoUpdateCash(id, cash, frozen) ==
    LET r == update_account_cash(accounts, id, cash, frozen)
    IN  /\ accounts' = r.db
        /\ response' = Returned("repo.cash", r.account)

RepoDeactivate(id) ==
    LET r == deactivate_account(accounts, id)
    IN  /\ accounts' = r.db
        /\ response' = Returned("repo.deactivate", r.account)

RepoActivate(id) ==
    LET r == activate_account(accounts, id)
    IN  /\ accounts' = r.db
        /\ response' = Returned("repo.activate", r.account)

\* The API operations, by any user, one at a time
Next ==
    \/ \E t \in Tokens : List(t)
    \/ \E t \in Tokens, data \in CreateBodies :
          Len(accounts) < MaxAccounts /\ Create(t, data)
    \/ \E t \in Tokens, id \in AccountIds : Details(t, id)
    \/ \E t \in Tokens, id \in AccountIds, data \in RenameBodies : Update(t, id, data)
    \/ \E t \in Tokens, id \in AccountIds : Delete(t, id)
    \/ \E t \in Tokens : Len(accounts) < MaxAccounts /\ Default(t)

Spec == Init /\ [][Next]_vars

\* Two users and an expired session working on each other's accounts
NextAccess ==
    \/ \E t \in Tokens, data \in TypeBodies :
          Len(accounts) < MaxAccounts /\ Create(t, data)
    \/ \E t \in Tokens, id \in AccountIds : Details(t, id)
    \/ \E t \in Tokens, id \in AccountIds, data \in ToXBodies : Update(t, id, data)
    \/ \E t \in Tokens, id \in AccountIds : Delete(t, id)
    \/ \E t \in Tokens : Len(accounts) < MaxAccounts /\ Default(t)

SpecAccess == Init /\ [][NextAccess]_vars

\* One user creating, updating and deleting accounts
NextUpdate ==
    \/ \E data \in TypeBodies : Len(accounts) < MaxRows /\ Create("tok1", data)
    \/ \E id \in RowIds, data \in FieldBodies \cup ToYBodies :
          Update("tok1", id, data)
    \/ \E id \in RowIds : Delete("tok1", id)

SpecUpdate == Init /\ [][NextUpdate]_vars

\* The repository functions called directly, next to the API
NextRepo ==
    \/ \E type \in AccountTypes :
          Len(accounts) < MaxRows /\ RepoCreate(1, "X", type, None)
    \/ \E id \in RowIds, data \in FieldBodies : RepoUpdate(id, data)
    \/ \E id \in RowIds, frozen \in {None, Some(100)} : RepoUpdateCash(id, 0, frozen)
    \/ \E id \in RowIds : RepoDeactivate(id)
    \/ \E id \in RowIds : RepoActivate(id)
    \/ \E data \in TypeBodies : Len(accounts) < MaxRows /\ Create("tok1", data)
    \/ \E id \in RowIds, data \in FieldBodies : Update("tok1", id, data)
    \/ \E id \in RowIds : Delete("tok1", id)
    \/ Len(accounts) < MaxRows /\ Default("tok1")

SpecRepo == Init /\ [][NextRepo]_vars

\* One account whose api key is any character sequence
NextMask ==
    \/ \E t \in {"tok1"}, data \in KeyBodies : accounts = <<>> /\ Create(t, data)
    \/ accounts = <<>> /\ RepoCreate(1, "X", "AI", None)
    \/ \E data \in RekeyBodies : Update("tok1", 1, data)
    \/ \E t \in Tokens : Details(t, 1)

SpecMask == Init /\ [][NextMask]_vars

----------------------------------------------------------------------------
(* Properties *)

Rows == 1..Len(accounts)

Valid(t) == verify_auth_session(t) # None

UserOf(t) == verify_auth_session(t)[1]

\* C1: no two distinct active accounts of the same user have the same name,
\* in every state the API operations reach from the empty table.
C1_UniqueActiveNames ==
    \A i, j \in Rows :
        ( /\ i # j
          /\ accounts[i].user_id = accounts[j].user_id
          /\ accounts[i].is_active = "true"
          /\ accounts[j].is_active = "true" )
        => accounts[i].name # accounts[j].name

\* C2: GetDetails, Update and Delete on an existing account of another user
\* answer 403 with no account field in the response and leave the table as
\* it was.
C2_ForbiddenLeavesNoTrace ==
    \A t \in Tokens, id \in Rows, data \in ProbeBodies :
        (Valid(t) /\ accounts[id].user_id # UserOf(t)) =>
            \A r \in { get_account_details(accounts, t, id),
                       update_trading_account(accounts, t, id, data),
                       delete_trading_account(accounts, t, id) } :
                /\ r.response.status = 403
                /\ r.response.detail = "Access denied"
                /\ r.response.out = <<>>
                /\ r.response.message = None
                /\ r.db = accounts

C2_Witness ==
    /\ response.op = "update"
    /\ response.status = 403
    /\ \E i \in Rows : accounts[i].is_active = "true" /\ accounts[i].name = "X"

\* C3 as stated: for an account id that is not in the table, GetDetails,
\* Update and Delete answer 404 whether or not the session token is valid.
C3_NotFoundRegardlessOfSession ==
    \A t \in Tokens, id \in AccountIds \ Rows, data \in ProbeBodies :
        /\ get_account_details(accounts, t, id).response.status = 404
        /\ update_trading_account(accounts, t, id, data).response.status = 404
        /\ delete_trading_account(accounts, t, id).response.status = 404

\* C3 as amended: for an account id that is not in the table, GetDetails,
\* Update and Delete answer 404 when the session token is valid and 401 when
\* it is invalid or expired; the table is left as it was.
C3_NotFoundAfterSessionCheck ==
    \A t \in Tokens, id \in AccountIds \ Rows, data \in ProbeBodies :
        \A r \in { get_account_details(accounts, t, id),
                   update_trading_account(accounts, t, id, data),
                   delete_trading_account(accounts, t, id) } :
            /\ r.response.status = IF Valid(t) THEN 404 ELSE 401
            /\ r.response.out = <<>>
            /\ r.db = accounts

C3_Witness ==
    /\ response.op = "details"
    /\ response.status = 404
    /\ accounts # <<>>

----------------------------------------------------------------------------

ShownKey == response.out[1].api_key

RawKey == accounts[response.out[1].id].api_key

Min(a, b) == IF a < b THEN a ELSE b

\* the shown key is "****" followed by the last four characters of raw
IsMaskOf(shown, raw) ==
    LET kept == Min(Len(raw), 4)
    IN  /\ Len(shown) = 4 + kept
        /\ \A i \in 1..4 : shown[i] = "*"
        /\ \A i \in 1..kept : shown[4 + i] = raw[Len(raw) - kept + i]

\* C4 as stated: the api_key GetDetails returns differs from the stored key
\* unless the stored key is shorter than 4 characters; it is "****" plus the
\* last 4 characters of a non-empty key and empty for an absent or empty key.
C4_MaskNeverEqualsRaw ==
    (response.op = "details" /\ response.status = 200) =>
        /\ (RawKey # None /\ Len(RawKey[1]) >= 4) => ShownKey # RawKey[1]
        /\ IF RawKey # None /\ RawKey[1] # <<>>
           THEN IsMaskOf(ShownKey, RawKey[1])
           ELSE ShownKey = <<>>

\* C4 as amended: the api_key GetDetails returns differs from the stored key
\* unless the stored key is shorter than 4 characters or is itself "****"
\* followed by exactly 4 characters; it is "****" plus the last 4 characters
\* of a non-empty key and empty for an absent or empty key.
C4_MaskLaw ==
    (response.op = "details" /\ response.status = 200) =>
        /\ (RawKey # None /\ Len(RawKey[1]) >= 4 /\ ShownKey = RawKey[1]) =>
              /\ Len(RawKey[1]) = 8
              /\ \A i \in 1..4 : RawKey[1][i] = "*"
        /\ IF RawKey # None /\ RawKey[1] # <<>>
           THEN IsMaskOf(ShownKey, RawKey[1])
           ELSE ShownKey = <<>>

C4_Witness ==
    /\ response.op = "details"
    /\ response.status = 200
    /\ RawKey # None
    /\ Len(RawKey[1]) > 4
    /\ \E i \in 1..Len(RawKey[1]) : RawKey[1][i] = "*"
    /\ ShownKey # RawKey[1]

----------------------------------------------------------------------------

ActiveNamed(user_id, name) ==
    \E i \in Rows : /\ accounts[i].user_id = user_id
                    /\ accounts[i].is_active = "true"
                    /\ accounts[i].name = name

\* C5: Create by a valid session fails with 400 and adds nothing when the
\* caller has an active account of that name; otherwise (the name is held
\* only by inactive accounts of the caller, or by other users) it succeeds
\* and adds exactly one active account of that name owned by the caller.
C5_CreateChecksActiveNames ==
    \A t \in Tokens, data \in CreateBodies :
        Valid(t) =>
            LET r == create_trading_account(accounts, t, data)
            IN  IF ActiveNamed(UserOf(t), data.name)
                THEN r.response.status = 400 /\ r.db = accounts
                ELSE /\ r.response.status = 200
                     /\ Len(r.db) = Len(accounts) + 1
                     /\ SubSeq(r.db, 1, Len(accounts)) = accounts
                     /\ r.db[Len(r.db)].name = data.name
                     /\ r.db[Len(r.db)].user_id = UserOf(t)
                     /\ r.db[Len(r.db)].is_active = "true"

\* C6: for a user without accounts, the first GetOrCreateDefault adds exactly
\* one account, active, of type AI and owned by the user; a second call right
\* after it adds none and returns the account of the first.
C6_DefaultTwice ==
    \A t \in Tokens :
        (Valid(t) /\ get_accounts_by_user(accounts, UserOf(t), FALSE) = <<>>) =>
            LET first  == get_or_create_default(accounts, t)
                second == get_or_create_default(first.db, t)
                made   == first.db[Len(first.db)]
            IN  /\ Len(first.db) = Len(accounts) + 1
                /\ SubSeq(first.db, 1, Len(accounts)) = accounts
                /\ made.user_id = UserOf(t)
                /\ made.account_type = "AI"
                /\ made.is_active = "true"
                /\ first.response.status = 200
                /\ first.response.out[1].id = made.id
                /\ second.db = first.db
                /\ second.response.status = 200
                /\ second.response.out[1].id = made.id

C6_Witness ==
    /\ response.op = "default"
    /\ response.status = 200
    /\ response.out[1].name = DefaultAccountName
    /\ Len(get_accounts_by_user(accounts, response.out[1].user_id, FALSE)) = 1
    /\ Len(accounts) = 2

\* C7: deactivating an existing account sets is_active to false, keeps the
\* row and changes nothing else; a second deactivation (repository call, or
\* Delete by the owner) succeeds again and leaves the table as the first did.
C7_DeactivateIdempotent ==
    \A id \in Rows :
        LET once  == deactivate_account(accounts, id)
            twice == deactivate_account(once.db, id)
        IN  /\ once.account # None
            /\ Len(once.db) = Len(accounts)
            /\ \A j \in Rows \ {id} : once.db[j] = accounts[j]
            /\ once.db[id] = [ accounts[id] EXCEPT !.is_active = "false" ]
            /\ twice.account # None
            /\ twice.db = once.db
            /\ \A t \in Tokens :
                 (Valid(t) /\ accounts[id].user_id = UserOf(t)) =>
                    LET del1 == delete_trading_account(accounts, t, id)
                        del2 == delete_trading_account(del1.db, t, id)
                    IN  /\ del1.response.status = 200
                        /\ del1.db = once.db
                        /\ del2.response.status = 200
                        /\ del2.db = del1.db

C7_Witness ==
    /\ response.op = "delete"
    /\ response.status = 200
    /\ \E i \in Rows : /\ accounts[i].is_active = "false"
                       /\ accounts[i].name = response.message[1]
    /\ \E i \in Rows : accounts[i].is_active = "true"

----------------------------------------------------------------------------

Frozen(old, new) ==
    /\ new.id = old.id
    /\ new.user_id = old.user_id
    /\ new.account_type = old.account_type
    /\ new.initial_capital = old.initial_capital
    /\ new.current_cash = old.current_cash
    /\ new.frozen_cash = old.frozen_cash
    /\ new.is_active = old.is_active

\* C8: Update changes, in the target only, no field other than those of
\* name, model, base_url and api_key that the request supplies; every other
\* field of the target and every other account stay as they were.
C8_UpdateFrame ==
    \A id \in RowIds, data \in UpdateBodies :
        \A db \in { update_trading_account(accounts, "tok1", id, data).db,
                    update_account(accounts, id, data.name, data.model,
                                   data.base_url, data.api_key).db } :
            /\ Len(db) = Len(accounts)
            /\ \A j \in Rows \ {id} : db[j] = accounts[j]
            /\ id \in Rows =>
                 /\ Frozen(accounts[id], db[id])
                 /\ data.name = None => db[id].name = accounts[id].name
                 /\ data.model = None => db[id].model = accounts[id].model
                 /\ data.base_url = None => db[id].base_url = accounts[id].base_url
                 /\ data.api_key = None => db[id].api_key = accounts[id].api_key

C8_Witness ==
    /\ response.op = "update"
    /\ response.status = 200
    /\ Len(accounts) = 2
    /\ response.out[1].name = "Y"
    /\ response.out[1].model = DefaultModel
    /\ response.out[1].base_url = DefaultBaseUrl
    /\ accounts[response.out[1].id].api_key = Some(SampleApiKey)
    /\ response.out[1].current_cash = DefaultCapital

\* C9: every account whose type is not AI has model, base_url and api_key
\* absent, in every state the API and the repository functions reach.
C9_ManualHasNoModelFields ==
    \A i \in Rows :
        accounts[i].account_type # "AI" =>
            /\ accounts[i].model = None
            /\ accounts[i].base_url = None
            /\ accounts[i].api_key = None

\* C10: an API call that answers with an error (401, 403, 404, 400 or 500)
\* leaves the table as it was before the call.
C10_ErrorsChangeNothing ==
    [][ (response'.status \in {400, 401, 403, 404, 500}) => accounts' = accounts ]_vars

====
